---- MODULE Spec2Model ----
(***************************************************************************)
(* A model of github-releases-summary: the release fetcher                 *)
(* (src/src/github_release.py), the summarizer clients (src/src/gpt.py)    *)
(* and the repository store and orchestration loop (src/app.py).           *)
(*                                                                         *)
(* Python str values are TLA+ strings; TLC evaluates Len, SubSeq, Head,    *)
(* Tail and \o on them.  An optional value (None or a str) is a sequence   *)
(* of length 0 or 1.                                                       *)
(***************************************************************************)
EXTENDS Integers, Sequences, FiniteSets, TLC

VARIABLES
    repo_input,   \* parse harness: the argument of parse_repo_input
    parse_out,    \* parse harness: what parse_repo_input returned or raised
    data,         \* the JSON document of REPOS_FILE: session id -> list of str
    call,         \* the last add_repo / remove_repo call, its result, the document before it
    fetchPc,      \* fetch_all_releases: "idle", "request", "await", "returned", "raised"
    page,         \* fetch_all_releases: the local page
    results,      \* fetch_all_releases: the local results
    requests,     \* the page numbers of the GET requests issued by the current fetch
    served,       \* the responses the server gave to them
    recentPc,     \* get_recent_releases: "idle", "fetching", "returned", "raised"
    n_days,       \* get_recent_releases: the argument n_days
    now,          \* get_recent_releases: the value of utcnow() (None before it is read)
    filtered,     \* get_recent_releases: the returned filtered_releases
    client,       \* the client create_gpt_client returned (None before)
    streamPc,     \* stream_summary: "idle", "create", "next", "yielded",
                  \* "error_yielded", "done", "raised"
    fragments,    \* the fragments stream_summary has yielded to its consumer
    summary_text, \* the consumer's concatenation of them
    backendLog,   \* what the backend did in this stream, in order
    thread,       \* the event loop's thread: "running" (the task runs),
                  \* "suspended" (the task awaits, the loop is free),
                  \* "blocked" (the task sits in a synchronous call)
    otherSteps,   \* steps another task of the same loop has taken
    mainPc,       \* main: "idle", "loop", "fetching", "summarizing", "done", "crashed"
    gpt_provider, \* main: the selected provider name
    created,      \* main: what create_gpt_client returned or raised (None before)
    repos,        \* main: the list read_repos returned
    idx,          \* main: the position of the for loop in repos
    cycle,        \* main: per repository, "pending", "active", "done", or the
                  \* error reported for it
    netLog        \* every GitHub and LLM request of the run, in order

parseVars == <<repo_input, parse_out>>
storeVars == <<data, call>>
fetchVars == <<fetchPc, page, results, requests, served>>
recentVars == <<recentPc, n_days, now, filtered>>
streamVars == <<streamPc, fragments, summary_text, backendLog, thread, otherSteps>>
mainVars == <<mainPc, gpt_provider, created, repos, idx, cycle, netLog>>
vars == <<parseVars, storeVars, fetchVars, recentVars, client, streamVars, mainVars>>

(***************************************************************************)
(* Bounds of the model.                                                    *)
(***************************************************************************)
MaxLen == 4
MaxPages == 3
MaxShort == 2
MaxChunks == 2
MaxOther == 2

(***************************************************************************)
(* str helpers.                                                            *)
(***************************************************************************)
None == <<>>

Some(v) == <<v>>

Char(s, i) == SubSeq(s, i, i)

\* str.isspace for one character
IsSpace(c) == c \in {" ", "\t", "\n", "\r"}

RECURSIVE lstrip(_)
lstrip(s) == IF Len(s) > 0 /\ IsSpace(Char(s, 1)) THEN lstrip(Tail(s)) ELSE s

RECURSIVE rstrip(_)
rstrip(s) ==
    IF Len(s) > 0 /\ IsSpace(Char(s, Len(s)))
    THEN rstrip(SubSeq(s, 1, Len(s) - 1))
    ELSE s

\* str.strip()
strip(s) == rstrip(lstrip(s))

\* str.startswith(p)
startswith(s, p) == Len(s) >= Len(p) /\ SubSeq(s, 1, Len(p)) = p

\* str.find(c, from) for a one-character c, 1-based; 0 when c does not occur
RECURSIVE find(_, _, _)
find(s, c, from) ==
    IF from > Len(s) THEN 0
    ELSE IF Char(s, from) = c THEN from
    ELSE find(s, c, from + 1)

\* the end of the longest run of characters other than c that starts at from
\* (from - 1 when the run is empty): the greedy match of [^c]+ or [^c]*
RunEnd(s, c, from) ==
    LET i == find(s, c, from) IN IF i = 0 THEN Len(s) ELSE i - 1

(***************************************************************************)
(* parse_repo_input                                                        *)
(***************************************************************************)
UrlPrefix == "https://github.com/"

Ok(username, repo) == [ok |-> TRUE, username |-> username, repo |-> repo, error |-> ""]

ValueError(msg) == [ok |-> FALSE, username |-> "", repo |-> "", error |-> msg]

\* re.match(r"https://github\.com/([^/]+)/([^/]+)", s): anchored at the start
\* only; each group is a greedy non-empty run of non-slash characters
MatchUrl(s) ==
    LET g1 == Len(UrlPrefix) + 1
        e1 == RunEnd(s, "/", g1)
        g2 == e1 + 2
        e2 == RunEnd(s, "/", g2)
    IN  IF /\ startswith(s, UrlPrefix)
           /\ e1 >= g1
           /\ e1 < Len(s)
           /\ e2 >= g2
        THEN Ok(SubSeq(s, g1, e1), SubSeq(s, g2, e2))
        ELSE ValueError("Cannot parse repository URL")

\* username, repo = s.split("/", 1)
SplitOnce(s) ==
    LET i == find(s, "/", 1) IN Ok(SubSeq(s, 1, i - 1), SubSeq(s, i + 1, Len(s)))

parse_repo_input(raw) ==
    LET s == strip(raw)
    IN  IF startswith(s, UrlPrefix)
        THEN MatchUrl(s)
        ELSE IF find(s, "/", 1) = 0
             THEN ValueError("Please enter in username/repo format")
             ELSE SplitOnce(s)

(***************************************************************************)
(* The repository store of app.py: REPOS_FILE holds one JSON object,       *)
(* session id -> list of "owner/name" strings.                             *)
(***************************************************************************)
\* ensure_data_file: a missing file is created holding {}
EmptyDoc == [sid \in {} |-> <<>>]

\* data.get(session_id, [])
Get(doc, sid) == IF sid \in DOMAIN doc THEN doc[sid] ELSE <<>>

\* data[session_id] = repos
Put(doc, sid, repo_list) ==
    [k \in DOMAIN doc \cup {sid} |-> IF k = sid THEN repo_list ELSE doc[k]]

\* x in repos
Contains(repo_list, x) == \E i \in 1..Len(repo_list) : repo_list[i] = x

\* repos.remove(x): the first occurrence goes
RemoveFirst(repo_list, x) ==
    LET i == CHOOSE j \in 1..Len(repo_list) :
                 repo_list[j] = x /\ \A k \in 1..(j - 1) : repo_list[k] # x
    IN  SubSeq(repo_list, 1, i - 1) \o SubSeq(repo_list, i + 1, Len(repo_list))

StoreResult(doc, ok, message) == [data |-> doc, ok |-> ok, message |-> message]

\* the membership test before the append left out
add_repo_NoMembershipTest(doc, sid, repo_str) ==
    LET parsed == parse_repo_input(repo_str)
        new_repo == parsed.username \o "/" \o parsed.repo
    IN  IF ~parsed.ok THEN StoreResult(doc, FALSE, "Invalid repository format.")
        ELSE StoreResult(Put(doc, sid, Append(Get(doc, sid), new_repo)),
                         TRUE, "Repository added.")

add_repo(doc, sid, repo_str) ==
    LET parsed == parse_repo_input(repo_str)
        repo_list == Get(doc, sid)
        new_repo == parsed.username \o "/" \o parsed.repo
    IN  IF ~parsed.ok THEN StoreResult(doc, FALSE, "Invalid repository format.")
        ELSE IF Contains(repo_list, new_repo)
             THEN StoreResult(doc, FALSE, "Repository already exists.")
        ELSE StoreResult(Put(doc, sid, Append(repo_list, new_repo)),
                         TRUE, "Repository added.")

remove_repo(doc, sid, repo_str) ==
    LET repo_list == Get(doc, sid)
    IN  IF ~Contains(repo_list, repo_str)
        THEN StoreResult(doc, FALSE, "Repository not found.")
        ELSE StoreResult(Put(doc, sid, RemoveFirst(repo_list, repo_str)),
                         TRUE, "Repository removed.")

\* read_repos
read_repos(doc, sid) == Get(doc, sid)

(***************************************************************************)
(* datetime: <<proleptic Gregorian ordinal, second of the day,             *)
(* microsecond>>, compared as Python compares naive datetimes.             *)
(***************************************************************************)
IsLeap(y) == y % 4 = 0 /\ (y % 100 # 0 \/ y % 400 = 0)

DaysInMonth(y, m) ==
    IF m = 2 THEN (IF IsLeap(y) THEN 29 ELSE 28)
    ELSE IF m \in {4, 6, 9, 11} THEN 30 ELSE 31

RECURSIVE DaysBeforeMonth(_, _)
DaysBeforeMonth(y, m) ==
    IF m = 1 THEN 0 ELSE DaysBeforeMonth(y, m - 1) + DaysInMonth(y, m - 1)

DaysBeforeYear(y) ==
    LET p == y - 1 IN p * 365 + (p \div 4) - (p \div 100) + (p \div 400)

\* datetime(y, m, d, H, M, S, us)
DateTime(y, m, d, H, M, S, us) ==
    <<DaysBeforeYear(y) + DaysBeforeMonth(y, m) + d, H * 3600 + M * 60 + S, us>>

\* a >= b
DtGe(a, b) ==
    \/ a[1] > b[1]
    \/ a[1] = b[1] /\ a[2] > b[2]
    \/ a[1] = b[1] /\ a[2] = b[2] /\ a[3] >= b[3]

\* dt - datetime.timedelta(days=n)
MinusDays(dt, n) == <<dt[1] - n, dt[2], dt[3]>>

(***************************************************************************)
(* datetime.datetime.strptime(s, "%Y-%m-%dT%H:%M:%SZ")                     *)
(***************************************************************************)
Digits == {"0", "1", "2", "3", "4", "5", "6", "7", "8", "9"}

DigitVal(c) ==
    CASE c = "0" -> 0 [] c = "1" -> 1 [] c = "2" -> 2 [] c = "3" -> 3
      [] c = "4" -> 4 [] c = "5" -> 5 [] c = "6" -> 6 [] c = "7" -> 7
      [] c = "8" -> 8 [] c = "9" -> 9

AllDigits(s) == \A i \in 1..Len(s) : Char(s, i) \in Digits

RECURSIVE ToInt(_)
ToInt(s) ==
    IF Len(s) = 0 THEN 0
    ELSE 10 * ToInt(SubSeq(s, 1, Len(s) - 1)) + DigitVal(Char(s, Len(s)))

\* A directive other than %Y matches one or two characters and is followed by
\* a literal of the format (matched ignoring case): the length of the field
\* that starts at from and is followed by one of seps, 0 when there is none.
FieldLen(s, from, seps) ==
    IF from + 1 <= Len(s) /\ Char(s, from + 1) \in seps THEN 1
    ELSE IF from + 2 <= Len(s) /\ Char(s, from + 2) \in seps THEN 2
    ELSE 0

\* the text of a field is digits with a value in lo..hi; %d also takes " [1-9]"
FieldOk(f, lo, hi, spaceLed) ==
    \/ AllDigits(f) /\ ToInt(f) \in lo..hi
    \/ spaceLed /\ Len(f) = 2 /\ Char(f, 1) = " " /\ Char(f, 2) \in Digits \ {"0"}

FieldVal(f) == IF Char(f, 1) = " " THEN ToInt(Tail(f)) ELSE ToInt(f)

ParseError == [ok |-> FALSE, dt |-> <<0, 0, 0>>]

strptime(s) ==
    LET mS == 6
        mL == FieldLen(s, mS, {"-"})
        dS == mS + mL + 1
        dL == FieldLen(s, dS, {"T", "t"})
        hS == dS + dL + 1
        hL == FieldLen(s, hS, {":"})
        nS == hS + hL + 1
        nL == FieldLen(s, nS, {":"})
        sS == nS + nL + 1
        sL == FieldLen(s, sS, {"Z", "z"})
        F(a, l) == SubSeq(s, a, a + l - 1)
    IN  IF /\ Len(s) >= 5
           /\ AllDigits(SubSeq(s, 1, 4))
           /\ Char(s, 5) = "-"
           /\ mL > 0 /\ FieldOk(F(mS, mL), 1, 12, FALSE)
           /\ dL > 0 /\ FieldOk(F(dS, dL), 1, 31, TRUE)
           /\ hL > 0 /\ FieldOk(F(hS, hL), 0, 23, FALSE)
           /\ nL > 0 /\ FieldOk(F(nS, nL), 0, 59, FALSE)
           /\ sL > 0 /\ FieldOk(F(sS, sL), 0, 61, FALSE)
           /\ sS + sL = Len(s)
        THEN LET y == ToInt(SubSeq(s, 1, 4))
                 m == FieldVal(F(mS, mL))
                 d == FieldVal(F(dS, dL))
                 H == FieldVal(F(hS, hL))
                 M == FieldVal(F(nS, nL))
                 S == FieldVal(F(sS, sL))
             IN  \* the datetime constructor rejects what the pattern let through
                 IF y >= 1 /\ d <= DaysInMonth(y, m) /\ S <= 59
                 THEN [ok |-> TRUE, dt |-> DateTime(y, m, d, H, M, S, 0)]
                 ELSE ParseError
        ELSE ParseError

(***************************************************************************)
(* Raw releases as the GitHub API returns them.  A draft release has       *)
(* published_at null.                                                      *)
(***************************************************************************)
Release(published, tag, body) ==
    [published_at |-> published, tag_name |-> tag, body |-> body]

\* the releases of the samples: published inside every window, before every
\* cutoff, on the cutoff of n_days = 7, later than now, with one-digit
\* fields, on a day that does not exist, with an empty and with no timestamp
ReleaseKinds ==
    { Release(Some("2024-01-10T00:00:00Z"), Some("v1"), Some("fix")),
      Release(Some("2023-01-01T00:00:00Z"), Some("v0"), Some("init")),
      Release(Some("2024-01-05T00:00:00Z"), Some("v0.9"), None),
      Release(Some("2024-01-13T08:30:00Z"), Some("v2"), Some("next")),
      Release(Some("2024-1-9T7:05:3Z"), Some("v1-rc"), Some("")),
      Release(Some("2024-02-30T00:00:00Z"), None, Some("no such day")),
      Release(Some(""), Some("v-empty"), Some("empty")),
      Release(None, Some("v-draft"), Some("draft")) }

PublishedSamples == {r.published_at : r \in ReleaseKinds}

\* strptime of every sample timestamp, evaluated once
Parsed == [s \in {p[1] : p \in PublishedSamples \ {None}} |-> strptime(s)]

NowSamples ==
    { DateTime(2024, 1, 12, 0, 0, 0, 0),
      DateTime(2024, 1, 12, 0, 0, 0, 1) }

\* st.number_input(min_value=1, max_value=365, value=7)
MinDays == 1
DefaultDays == 7
DaysSamples == {MinDays, DefaultDays}

(***************************************************************************)
(* fetch_all_releases                                                      *)
(***************************************************************************)
PerPage == 100

HttpOk == 200

Response(exc, status, items) == [exc |-> exc, status |-> status, data |-> items]

RECURSIVE SeqsUpTo(_, _)
SeqsUpTo(S, n) ==
    IF n = 0 THEN {<<>>}
    ELSE LET P == SeqsUpTo(S, n - 1) IN P \cup {Append(q, x) : q \in P, x \in S}

FullPage(k) == [i \in 1..PerPage |-> k]

\* what ends the pagination: a transport error, a non-200 status, an empty
\* or a short page
LastResponses(kinds) ==
    {Response(TRUE, 0, <<>>)}
        \cup {Response(FALSE, st, <<>>) : st \in {403, 404, 500}}
        \cup {Response(FALSE, HttpOk, d) : d \in SeqsUpTo(kinds, MaxShort)}

FullResponses(kinds) == {Response(FALSE, HttpOk, FullPage(k)) : k \in kinds}

\* the server answers at most MaxPages - 1 full pages
Responses(pg, kinds, fullKinds) ==
    LastResponses(kinds) \cup (IF pg < MaxPages THEN FullResponses(fullKinds) ELSE {})

\* the releases of the full pages of the samples
FullKinds ==
    { r \in ReleaseKinds :
        r.published_at \in {Some("2024-01-10T00:00:00Z"), Some("2023-01-01T00:00:00Z")} }

FetchResponses == [pg \in 1..MaxPages |-> Responses(pg, ReleaseKinds, FullKinds)]

FetchState(pc, res, pg) == [pc |-> pc, results |-> res, page |-> pg]

\* page += 1 forgotten
HandleResponse_SamePage(res, pg, resp) ==
    IF resp.exc THEN FetchState("raised", res, pg)
    ELSE IF resp.status # HttpOk THEN FetchState("returned", res, pg)
    ELSE IF resp.data = <<>> THEN FetchState("returned", res, pg)
    ELSE IF Len(resp.data) < PerPage THEN FetchState("returned", res \o resp.data, pg)
    ELSE FetchState("request", res \o resp.data, pg)

\* a non-200 status discards what was accumulated
HandleResponse_DropOnError(res, pg, resp) ==
    IF resp.exc THEN FetchState("raised", res, pg)
    ELSE IF resp.status # HttpOk THEN FetchState("returned", <<>>, pg)
    ELSE IF resp.data = <<>> THEN FetchState("returned", res, pg)
    ELSE IF Len(resp.data) < PerPage THEN FetchState("returned", res \o resp.data, pg)
    ELSE FetchState("request", res \o resp.data, pg + 1)

\* the body of the while loop once session.get has answered
HandleResponse(res, pg, resp) ==
    IF resp.exc THEN FetchState("raised", res, pg)
    ELSE IF resp.status # HttpOk THEN FetchState("returned", res, pg)
    ELSE IF resp.data = <<>> THEN FetchState("returned", res, pg)
    ELSE IF Len(resp.data) < PerPage THEN FetchState("returned", res \o resp.data, pg)
    ELSE FetchState("request", res \o resp.data, pg + 1)

\* results = [], page = 1
FetchStart ==
    /\ fetchPc' = "request"
    /\ page' = 1
    /\ results' = <<>>
    /\ requests' = <<>>
    /\ served' = <<>>

\* session.get(f"{api_url}?page={page}&per_page={per_page}")
FetchRequest ==
    /\ fetchPc = "request"
    /\ fetchPc' = "await"
    /\ requests' = Append(requests, page)
    /\ UNCHANGED <<page, results, served>>

FetchResponse(resp) ==
    /\ fetchPc = "await"
    /\ LET st == HandleResponse(results, page, resp)
       IN  /\ fetchPc' = st.pc
           /\ results' = st.results
           /\ page' = st.page
    /\ served' = Append(served, resp)
    /\ UNCHANGED requests

(***************************************************************************)
(* get_recent_releases                                                     *)
(***************************************************************************)
Falsy(opt) == opt = None \/ opt[1] = ""

Projection(release) ==
    [time |-> release.published_at[1],
     version |-> release.tag_name,
     description |-> release.body]

\* published_at > cutoff in place of >=
FilterOne_Strict(release, cutoff) ==
    IF Falsy(release.published_at) THEN <<>>
    ELSE LET parsed == Parsed[release.published_at[1]]
         IN  IF ~parsed.ok THEN <<>>
             ELSE IF DtGe(parsed.dt, cutoff) /\ parsed.dt # cutoff
                  THEN <<Projection(release)>>
             ELSE <<>>

\* one iteration of the for loop: what it appends to filtered_releases
FilterOne(release, cutoff) ==
    IF Falsy(release.published_at) THEN <<>>
    ELSE LET parsed == Parsed[release.published_at[1]]
         IN  IF ~parsed.ok THEN <<>>
             ELSE IF DtGe(parsed.dt, cutoff) THEN <<Projection(release)>>
             ELSE <<>>

\* the for loop over releases[lo..hi]: the appended items, in order (the
\* concatenation is evaluated pairwise, which keeps TLC's recursion shallow)
RECURSIVE FilterRange(_, _, _, _)
FilterRange(releases, lo, hi, cutoff) ==
    IF lo > hi THEN <<>>
    ELSE IF lo = hi THEN FilterOne(releases[lo], cutoff)
    ELSE LET mid == (lo + hi) \div 2
         IN  FilterRange(releases, lo, mid, cutoff)
                 \o FilterRange(releases, mid + 1, hi, cutoff)

FilterReleases(releases, cutoff) == FilterRange(releases, 1, Len(releases), cutoff)

Cutoff(nw, n) == MinusDays(nw, n)

RecentStart(n) ==
    /\ recentPc' = "fetching"
    /\ n_days' = n
    /\ now' = None
    /\ filtered' = <<>>
    /\ FetchStart

\* fetch_all_releases returned: read the clock and filter
RecentFilter(nw) ==
    /\ recentPc = "fetching"
    /\ fetchPc = "returned"
    /\ now' = Some(nw)
    /\ filtered' = FilterReleases(results, Cutoff(nw, n_days))
    /\ recentPc' = "returned"
    /\ UNCHANGED <<n_days, fetchVars>>

\* fetch_all_releases raised: the exception leaves get_recent_releases too
RecentRaise ==
    /\ recentPc = "fetching"
    /\ fetchPc = "raised"
    /\ recentPc' = "raised"
    /\ UNCHANGED <<n_days, now, filtered, fetchVars>>

(***************************************************************************)
(* create_gpt_client and the two clients of gpt.py                         *)
(***************************************************************************)
UpperCase == "ABCDEFGHIJKLMNOPQRSTUVWXYZ"

LowerCase == "abcdefghijklmnopqrstuvwxyz"

\* str.lower() of one character
LowerChar(c) ==
    LET i == find(UpperCase, c, 1) IN IF i = 0 THEN c ELSE Char(LowerCase, i)

\* str.lower()
RECURSIVE lower(_)
lower(s) == IF Len(s) = 0 THEN "" ELSE LowerChar(Char(s, 1)) \o lower(Tail(s))

\* OpenAIClient.__init__ and ZhipuAIClient.__init__
GptClient(provider, model) == [provider |-> provider, model |-> model]

Created(c) == [ok |-> TRUE, client |-> c, error |-> ""]

CreateError(msg) == [ok |-> FALSE, client |-> GptClient("", ""), error |-> msg]

\* the provider compared as given, without lower()
create_gpt_client_CaseSensitive(provider, api_key, model) ==
    IF provider = "openai" THEN Created(GptClient("openai", "gpt-4o"))
    ELSE IF provider = "zhipuai"
         THEN Created(GptClient("zhipuai", IF model # "" THEN model ELSE "glm-4-flash"))
    ELSE CreateError("Unsupported GPT provider: " \o provider)

create_gpt_client(provider, api_key, model) ==
    LET name == lower(provider)
    IN  IF name = "openai" THEN Created(GptClient("openai", "gpt-4o"))
        ELSE IF name = "zhipuai"
             THEN Created(GptClient("zhipuai", IF model # "" THEN model ELSE "glm-4-flash"))
        ELSE CreateError("Unsupported GPT provider: " \o name)

(***************************************************************************)
(* stream_summary.  The backend's part in a stream is a sequence of        *)
(* events: the completion call returns a stream ("created") or raises      *)
(* ("error"); the stream then delivers a chunk, ends, or raises.           *)
(***************************************************************************)
Event(kind, choices, msg) == [kind |-> kind, choices |-> choices, msg |-> msg]

StreamState(pc, frags) == [pc |-> pc, fragments |-> frags]

\* chunk.choices[0].delta.content or ""
ContentOrEmpty(content) == IF Falsy(content) THEN "" ELSE content[1]

IndexErrorText == "list index out of range"

\* no try/except around the stream: the exception leaves the generator
OpenAI_OnEvent_Unhandled(frags, ev) ==
    IF ev.kind = "created" THEN StreamState("next", frags)
    ELSE IF ev.kind = "end" THEN StreamState("done", frags)
    ELSE IF ev.kind = "chunk" /\ ev.choices # <<>>
         THEN StreamState("yielded", Append(frags, ContentOrEmpty(ev.choices[1])))
    ELSE StreamState("raised", frags)

\* OpenAIClient.stream_summary: what the generator does with the backend's
\* next event
OpenAI_OnEvent(frags, ev) ==
    IF ev.kind = "created" THEN StreamState("next", frags)
    ELSE IF ev.kind = "end" THEN StreamState("done", frags)
    ELSE IF ev.kind = "chunk"
         THEN IF ev.choices = <<>>
              THEN StreamState("error_yielded",
                       Append(frags, "\nError calling OpenAI API: " \o IndexErrorText))
              ELSE StreamState("yielded", Append(frags, ContentOrEmpty(ev.choices[1])))
    ELSE StreamState("error_yielded",
             Append(frags, "\nError calling OpenAI API: " \o ev.msg))

\* ZhipuAIClient.stream_summary: the same, over the synchronous stream
ZhipuAI_OnEvent(frags, ev) ==
    IF ev.kind = "created" THEN StreamState("next", frags)
    ELSE IF ev.kind = "end" THEN StreamState("done", frags)
    ELSE IF ev.kind = "chunk"
         THEN IF ev.choices = <<>>
              THEN StreamState("error_yielded",
                       Append(frags, "\nError calling ZhipuAI API: " \o IndexErrorText))
              ELSE StreamState("yielded", Append(frags, ContentOrEmpty(ev.choices[1])))
    ELSE StreamState("error_yielded",
             Append(frags, "\nError calling ZhipuAI API: " \o ev.msg))

\* While the backend works on the call: AsyncOpenAI is awaited, so the task
\* is suspended and the loop is free; ZhipuAI is called synchronously inside
\* the coroutine, so the loop's thread sits in the call.
OpenAI_Waiting == "suspended"

ZhipuAI_Waiting == "blocked"

Waiting(c) == IF c.provider = "openai" THEN OpenAI_Waiting ELSE ZhipuAI_Waiting

OnEvent(c, frags, ev) ==
    IF c.provider = "openai" THEN OpenAI_OnEvent(frags, ev) ELSE ZhipuAI_OnEvent(frags, ev)

ChunksIn(log) == Len(SelectSeq(log, LAMBDA e : e.kind = "chunk"))

\* the first __anext__: the request goes to the completion API
StreamStart ==
    /\ streamPc = "idle"
    /\ client # None
    /\ streamPc' = "create"
    /\ fragments' = <<>>
    /\ summary_text' = ""
    /\ backendLog' = <<>>
    /\ thread' = Waiting(client[1])
    /\ UNCHANGED otherSteps

\* the backend answers the call the generator waits in
BackendEvent(ev) ==
    /\ \/ streamPc = "create" /\ ev.kind \in {"created", "error"}
       \/ /\ streamPc = "next"
          /\ ev.kind \in {"chunk", "end", "error"}
          /\ ev.kind = "chunk" => ChunksIn(backendLog) < MaxChunks
    /\ LET st == OnEvent(client[1], fragments, ev)
       IN  /\ streamPc' = st.pc
           /\ fragments' = st.fragments
           /\ thread' = IF st.pc = "next" THEN Waiting(client[1]) ELSE "running"
    /\ backendLog' = Append(backendLog, ev)
    /\ UNCHANGED <<summary_text, otherSteps>>

\* the body of the consumer's async for, then its next __anext__
ConsumerResume ==
    /\ streamPc \in {"yielded", "error_yielded"}
    /\ summary_text' = summary_text \o fragments[Len(fragments)]
    /\ streamPc' = IF streamPc = "yielded" THEN "next" ELSE "done"
    /\ thread' = IF streamPc = "yielded" THEN Waiting(client[1]) ELSE "running"
    /\ UNCHANGED <<fragments, backendLog, otherSteps>>

\* another task of the loop runs one step: the loop can pick it only while
\* the streaming task is suspended at an await
OtherTaskStep ==
    /\ thread = "suspended"
    /\ otherSteps < MaxOther
    /\ otherSteps' = otherSteps + 1
    /\ UNCHANGED <<streamPc, fragments, summary_text, backendLog, thread>>

ErrorTexts == {"Connection error.", "401 Unauthorized"}

ChunkEvents == {Event("chunk", <<c>>, "") : c \in {Some("Hi"), Some(" there"), Some(""), None}}

MalformedChunk == Event("chunk", <<>>, "")

BackendEvents ==
    {Event("created", <<>>, ""), Event("end", <<>>, ""), MalformedChunk}
        \cup ChunkEvents
        \cup {Event("error", <<>>, m) : m \in ErrorTexts}

(***************************************************************************)
(* SpecFetch: one call of get_recent_releases against every server of the  *)
(* samples.                                                                *)
(***************************************************************************)
ParseIdle == repo_input = "" /\ parse_out = None

StoreIdle == data = EmptyDoc /\ call = None

FetchIdle ==
    /\ fetchPc = "idle" /\ page = 0 /\ results = <<>>
    /\ requests = <<>> /\ served = <<>>

RecentIdle == recentPc = "idle" /\ n_days = 0 /\ now = None /\ filtered = <<>>

StreamIdle ==
    /\ streamPc = "idle" /\ fragments = <<>> /\ summary_text = ""
    /\ backendLog = <<>> /\ thread = "running" /\ otherSteps = 0

MainIdle ==
    /\ mainPc = "idle" /\ gpt_provider = "" /\ created = None
    /\ repos = <<>> /\ idx = 0 /\ cycle = <<>> /\ netLog = <<>>

InitFetch ==
    /\ ParseIdle /\ StoreIdle /\ FetchIdle /\ RecentIdle
    /\ client = None /\ StreamIdle /\ MainIdle

CallRecent ==
    /\ recentPc = "idle"
    /\ \E n \in DaysSamples : RecentStart(n)
    /\ UNCHANGED <<parseVars, storeVars, client, streamVars, mainVars>>

ServerCall ==
    /\ FetchRequest
    /\ UNCHANGED <<parseVars, storeVars, recentVars, client, streamVars, mainVars>>

ServerAnswer ==
    /\ fetchPc = "await"
    /\ page <= MaxPages
    /\ \E resp \in FetchResponses[page] : FetchResponse(resp)
    /\ UNCHANGED <<parseVars, storeVars, recentVars, client, streamVars, mainVars>>

ReadClockAndFilter ==
    /\ \E nw \in NowSamples : RecentFilter(nw)
    /\ UNCHANGED <<parseVars, storeVars, client, streamVars, mainVars>>

FetchFailed ==
    /\ RecentRaise
    /\ UNCHANGED <<parseVars, storeVars, client, streamVars, mainVars>>

NextFetch ==
    \/ CallRecent
    \/ ServerCall
    \/ ServerAnswer
    \/ ReadClockAndFilter
    \/ FetchFailed

SpecFetch == InitFetch /\ [][NextFetch]_vars

(***************************************************************************)
(* Properties of the release fetcher.                                      *)
(***************************************************************************)
RECURSIVE ConcatPages(_)
ConcatPages(pages) ==
    IF pages = <<>> THEN <<>>
    ELSE ConcatPages(SubSeq(pages, 1, Len(pages) - 1)) \o pages[Len(pages)].data

IsOkPage(resp) == ~resp.exc /\ resp.status = HttpOk

IsNonOk(resp) == ~resp.exc /\ resp.status # HttpOk

AllOkPages(pages) == \A i \in 1..Len(pages) : IsOkPage(pages[i])

\* C1: when every page is served with status 200, the requests are for the
\* pages 1, 2, 3, ... in this order, every page before the last is full, the
\* first page that is empty or short is the last one requested, and the
\* returned list is the concatenation of the pages in page order.
C1_PaginationConcatenates ==
    AllOkPages(served) =>
        /\ requests = [i \in 1..Len(requests) |-> i]
        /\ Len(requests) \in {Len(served), Len(served) + 1}
        /\ \A i \in 1..Len(served) :
              Len(served[i].data) < PerPage =>
                  /\ i = Len(served)
                  /\ Len(requests) = i
                  /\ fetchPc = "returned"
        /\ fetchPc = "returned" =>
              /\ results = ConcatPages(served)
              /\ Len(served[Len(served)].data) < PerPage

C1_Witness ==
    /\ fetchPc = "returned"
    /\ AllOkPages(served)
    /\ Len(served) = 3
    /\ served[1].data # served[2].data
    /\ Len(results) = 2 * PerPage + 2

\* C5: a non-200 status ends the pagination at that page: no later page is
\* requested, nothing is raised, and the result is the concatenation of the
\* pages received with status 200 before it.
C5_NonOkStopsPagination ==
    \A i \in 1..Len(served) :
        IsNonOk(served[i]) =>
            /\ i = Len(served)
            /\ Len(requests) = i
            /\ fetchPc = "returned"
            /\ recentPc # "raised"
            /\ AllOkPages(SubSeq(served, 1, i - 1))
            /\ results = ConcatPages(SubSeq(served, 1, i - 1))

C5_Witness ==
    /\ fetchPc = "returned"
    /\ Len(served) = 3
    /\ served[3].status = 403
    /\ Len(results) = 2 * PerPage

\* the releases the claim keeps: published_at is present, parses, and is not
\* before now - n_days
InTrailingWindow(release, nw, n) ==
    /\ release.published_at # None
    /\ Parsed[release.published_at[1]].ok
    /\ DtGe(Parsed[release.published_at[1]].dt, MinusDays(nw, n))

ExpectedRecent(releases, nw, n) ==
    LET kept == SelectSeq(releases, LAMBDA r : InTrailingWindow(r, nw, n))
    IN  [i \in 1..Len(kept) |->
            [time |-> kept[i].published_at[1],
             version |-> kept[i].tag_name,
             description |-> kept[i].body]]

C8_NothingAfterNow ==
    recentPc = "returned" =>
        \A i \in 1..Len(filtered) : DtGe(now[1], Parsed[filtered[i].time].dt)

(***************************************************************************)
(* SpecParse: parse_repo_input applied to every string of the samples.     *)
(***************************************************************************)
RECURSIVE StrsUpTo(_, _)
StrsUpTo(A, n) ==
    IF n = 0 THEN {""}
    ELSE LET P == StrsUpTo(A, n - 1) IN P \cup {t \o c : t \in P, c \in A}

ParseAlphabet == {"o", "n", "/", " "}

ParseInputs ==
    {pre \o body : pre \in {"", UrlPrefix, "http://github.com/"},
                   body \in StrsUpTo(ParseAlphabet, MaxLen)}

InitParse ==
    /\ repo_input \in ParseInputs
    /\ parse_out = None
    /\ StoreIdle /\ FetchIdle /\ RecentIdle /\ client = None /\ StreamIdle /\ MainIdle

ParseCall ==
    /\ parse_out = None
    /\ parse_out' = Some(parse_repo_input(repo_input))
    /\ UNCHANGED <<repo_input, storeVars, fetchVars, recentVars, client, streamVars, mainVars>>

NextParse == ParseCall

SpecParse == InitParse /\ [][NextParse]_vars

\* a non-empty string without a slash
IsSegment(t) == Len(t) > 0 /\ find(t, "/", 1) = 0

\* t is owner/name: the reference it denotes, as a set of zero or one records
BareReference(t) ==
    LET i == find(t, "/", 1)
    IN  IF i > 0 /\ IsSegment(SubSeq(t, 1, i - 1)) /\ IsSegment(SubSeq(t, i + 1, Len(t)))
        THEN {[owner |-> SubSeq(t, 1, i - 1), name |-> SubSeq(t, i + 1, Len(t))]}
        ELSE {}

\* the reference a valid input denotes (surrounding white space set aside):
\* owner/name, or https://github.com/owner/name
ValidReference(raw) ==
    LET t == strip(raw)
    IN  IF startswith(t, UrlPrefix)
        THEN BareReference(SubSeq(t, Len(UrlPrefix) + 1, Len(t)))
        ELSE BareReference(t)

\* C3: parse_repo_input returns {owner, name} exactly for an input of the
\* form owner/name or https://github.com/owner/name and fails for every
\* other string: no empty owner or name, no extra path segments.
C3_ParseExactOrInvalidFormat ==
    parse_out # None =>
        LET r == parse_out[1]
            valid == ValidReference(repo_input)
        IN  IF valid = {} THEN ~r.ok
            ELSE r.ok /\ [owner |-> r.username, name |-> r.repo] \in valid

(***************************************************************************)
(* SpecStore: add_repo and remove_repo, one call at a time, from an empty  *)
(* store.                                                                  *)
(***************************************************************************)
Sessions == {"s1", "s2"}

AddInputs ==
    {"a/b", " a/b ", "https://github.com/a/b", "c/d", "a/", "nope", "https://github.com/a"}

RemoveInputs == {"a/b", "c/d", "a/", "x/y", " a/b "}

InitStore ==
    /\ StoreIdle /\ ParseIdle /\ FetchIdle /\ RecentIdle
    /\ client = None /\ StreamIdle /\ MainIdle

CallRecord(op, sid, arg, res) ==
    Some([op |-> op, session |-> sid, arg |-> arg, ok |-> res.ok,
          message |-> res.message, before |-> data])

AddRepo ==
    /\ \E sid \in Sessions, repo_str \in AddInputs :
          LET res == add_repo(data, sid, repo_str)
          IN  /\ data' = res.data
              /\ call' = CallRecord("add", sid, repo_str, res)
    /\ UNCHANGED <<parseVars, fetchVars, recentVars, client, streamVars, mainVars>>

RemoveRepo ==
    /\ \E sid \in Sessions, repo_str \in RemoveInputs :
          LET res == remove_repo(data, sid, repo_str)
          IN  /\ data' = res.data
              /\ call' = CallRecord("remove", sid, repo_str, res)
    /\ UNCHANGED <<parseVars, fetchVars, recentVars, client, streamVars, mainVars>>

NextStore == AddRepo \/ RemoveRepo

SpecStore == InitStore /\ [][NextStore]_vars

NoDuplicates(repo_list) ==
    \A i, j \in 1..Len(repo_list) : repo_list[i] = repo_list[j] => i = j

\* C10: no session's list ever holds a string twice; a failing call leaves
\* the whole store as it was, a successful call changes the list of its own
\* session only.
C10_StoreListsDistinct ==
    /\ \A sid \in DOMAIN data : NoDuplicates(data[sid])
    /\ call # None =>
          LET c == call[1]
          IN  /\ ~c.ok => data = c.before
              /\ c.ok =>
                    /\ Get(data, c.session) # Get(c.before, c.session)
                    /\ DOMAIN data = DOMAIN c.before \cup {c.session}
                    /\ \A sid \in DOMAIN c.before \ {c.session} :
                          data[sid] = c.before[sid]

C10_Witness ==
    /\ call # None
    /\ ~call[1].ok
    /\ call[1].op = "add"
    /\ call[1].arg = "https://github.com/a/b"
    /\ call[1].message = "Repository already exists."
    /\ Get(data, "s1") = <<"c/d", "a/b">>
    /\ Get(data, "s2") = <<"a/b">>

(***************************************************************************)
(* SpecStream: one stream_summary of either client, consumed by an async   *)
(* for, on an event loop that has another task ready.                      *)
(***************************************************************************)
ProviderSamples == {"OpenAI", "ZhipuAI", "openai", "ZHIPUAI", "unsupported", "OpenAI ", ""}


InitStream ==
    /\ ParseIdle /\ StoreIdle /\ FetchIdle /\ RecentIdle /\ StreamIdle /\ MainIdle
    /\ \E name \in ProviderSamples :
          LET made == create_gpt_client(name, "key", "")
          IN  made.ok /\ client = Some(made.client)

Unrelated == <<parseVars, storeVars, fetchVars, recentVars, client, mainVars>>

CallStream == StreamStart /\ UNCHANGED Unrelated

Backend == (\E ev \in BackendEvents : BackendEvent(ev)) /\ UNCHANGED Unrelated

Consumer == ConsumerResume /\ UNCHANGED Unrelated

OtherTask == OtherTaskStep /\ UNCHANGED Unrelated

NextStream == CallStream \/ Backend \/ Consumer \/ OtherTask

SpecStream == InitStream /\ [][NextStream]_vars

BackendName(c) == IF c.provider = "openai" THEN "OpenAI" ELSE "ZhipuAI"

\* the backend failed: it raised, or delivered a chunk without choices
IsFailure(ev) == ev.kind = "error" \/ ev = MalformedChunk

FailureText(ev) == IF ev.kind = "error" THEN ev.msg ELSE IndexErrorText

\* the text of the chunks delivered before a failure
RECURSIVE DeliveredTexts(_)
DeliveredTexts(log) ==
    IF log = <<>> THEN <<>>
    ELSE LET ev == Head(log)
         IN  IF ev.kind = "chunk" /\ ev.choices # <<>>
             THEN <<IF ev.choices[1] = None THEN "" ELSE ev.choices[1][1]>>
                      \o DeliveredTexts(Tail(log))
             ELSE DeliveredTexts(Tail(log))

\* C4: when the backend fails after k fragments (k >= 0, the completion
\* call itself included), the stream yields those k fragments in order, then
\* the one fragment "\nError calling <Backend> API: <details>", and ends
\* without raising: k + 1 fragments, none after the error fragment.
C4_ErrorBecomesLastFragment ==
    /\ streamPc # "raised"
    /\ \A i \in 1..Len(backendLog) :
          IsFailure(backendLog[i]) =>
              LET k == ChunksIn(SubSeq(backendLog, 1, i - 1))
              IN  /\ i = Len(backendLog)
                  /\ streamPc \in {"error_yielded", "done"}
                  /\ Len(fragments) = k + 1
                  /\ SubSeq(fragments, 1, k) = DeliveredTexts(backendLog)
                  /\ fragments[k + 1] =
                        "\nError calling " \o BackendName(client[1]) \o " API: "
                            \o FailureText(backendLog[i])

C4_Witness ==
    /\ streamPc = "done"
    /\ client[1].provider = "zhipuai"
    /\ fragments = <<"Hi", "", "\nError calling ZhipuAI API: Connection error.">>

\* C6: the ZhipuAI stream does not block the loop: while the backend is
\* producing the next fragment, another task of the loop can take a step;
\* the fragments reach the consumer in the order of their arrival.
C6_ZhipuLeavesLoopFree ==
    (client # None /\ client[1].provider = "zhipuai") =>
        /\ (streamPc \in {"create", "next"} /\ otherSteps < MaxOther)
              => ENABLED OtherTask
        /\ (\A i \in 1..Len(backendLog) : ~IsFailure(backendLog[i]))
              => fragments = DeliveredTexts(backendLog)

(***************************************************************************)
(* main of app.py, from the click on "Summarize All Repositories".         *)
(***************************************************************************)
\* GitHubClient.__init__
ApiUrl(username, repo) ==
    "https://api.github.com/repos/" \o username \o "/" \o repo \o "/releases"

Finished == {"done", "parse_error", "fetch_error", "no_releases"}

FinishedCount == Cardinality({j \in 1..Len(cycle) : cycle[j] \in Finished})

NetEntry(kind, target) ==
    [kind |-> kind, repo |-> idx, target |-> target, finished |-> FinishedCount]

FetchReset ==
    /\ fetchPc' = "idle" /\ page' = 0 /\ results' = <<>>
    /\ requests' = <<>> /\ served' = <<>>

StreamReset ==
    /\ streamPc' = "idle" /\ fragments' = <<>> /\ summary_text' = ""
    /\ backendLog' = <<>> /\ thread' = "running"

\* read_repos, then create_gpt_client: an empty list or a failed
\* construction ends the run
Summarize ==
    /\ mainPc = "idle"
    /\ LET listed == read_repos(data, "s1")
           made == create_gpt_client(gpt_provider, "key", "")
       IN  /\ repos' = listed
           /\ cycle' = [j \in 1..Len(listed) |-> "pending"]
           /\ IF listed = <<>>
              THEN mainPc' = "done" /\ UNCHANGED <<created, client, idx>>
              ELSE /\ created' = Some(made)
                   /\ IF made.ok
                      THEN client' = Some(made.client) /\ idx' = 1 /\ mainPc' = "loop"
                      ELSE mainPc' = "done" /\ UNCHANGED <<client, idx>>
    /\ UNCHANGED <<parseVars, storeVars, fetchVars, recentVars, streamVars,
                   gpt_provider, netLog>>

\* a parsing error ends the run
NextRepo_AbortOnParseError ==
    /\ mainPc = "loop"
    /\ IF idx > Len(repos)
       THEN mainPc' = "done" /\ UNCHANGED <<cycle, idx, fetchVars, recentVars>>
       ELSE IF ~parse_repo_input(repos[idx]).ok
            THEN /\ cycle' = [cycle EXCEPT ![idx] = "parse_error"]
                 /\ mainPc' = "done"
                 /\ UNCHANGED <<idx, fetchVars, recentVars>>
            ELSE /\ cycle' = [cycle EXCEPT ![idx] = "active"]
                 /\ mainPc' = "fetching"
                 /\ RecentStart(DefaultDays)
                 /\ UNCHANGED idx
    /\ UNCHANGED <<parseVars, storeVars, client, streamVars,
                   gpt_provider, created, repos, netLog>>

\* the head of the for loop: parse_repo_input, then the call of
\* get_recent_releases up to its first request
NextRepo ==
    /\ mainPc = "loop"
    /\ IF idx > Len(repos)
       THEN mainPc' = "done" /\ UNCHANGED <<cycle, idx, fetchVars, recentVars>>
       ELSE IF ~parse_repo_input(repos[idx]).ok
            THEN /\ cycle' = [cycle EXCEPT ![idx] = "parse_error"]
                 /\ idx' = idx + 1
                 /\ UNCHANGED <<mainPc, fetchVars, recentVars>>
            ELSE /\ cycle' = [cycle EXCEPT ![idx] = "active"]
                 /\ mainPc' = "fetching"
                 /\ RecentStart(DefaultDays)
                 /\ UNCHANGED idx
    /\ UNCHANGED <<parseVars, storeVars, client, streamVars,
                   gpt_provider, created, repos, netLog>>

GitHubRequest ==
    /\ mainPc = "fetching"
    /\ FetchRequest
    /\ LET parsed == parse_repo_input(repos[idx])
       IN  netLog' = Append(netLog, NetEntry("github", ApiUrl(parsed.username, parsed.repo)))
    /\ UNCHANGED <<parseVars, storeVars, recentVars, client, streamVars,
                   mainPc, gpt_provider, created, repos, idx, cycle>>

\* the pages the server of main's samples answers with
MainKinds ==
    { r \in ReleaseKinds : r.published_at = Some("2024-01-10T00:00:00Z") }

MainResponses ==
    [pg \in 1..MaxPages |->
        {Response(TRUE, 0, <<>>), Response(FALSE, 403, <<>>), Response(FALSE, HttpOk, <<>>)}
            \cup {Response(FALSE, HttpOk, <<k>>) : k \in ReleaseKinds}
            \cup (IF pg < MaxPages THEN FullResponses(MainKinds) ELSE {})]

GitHubAnswer ==
    /\ mainPc = "fetching"
    /\ fetchPc = "await"
    /\ page <= MaxPages
    /\ \E resp \in MainResponses[page] : FetchResponse(resp)
    /\ UNCHANGED <<parseVars, storeVars, recentVars, client, streamVars, mainVars>>

FilterRecent ==
    /\ mainPc = "fetching"
    /\ RecentFilter(DateTime(2024, 1, 12, 0, 0, 0, 0))
    /\ UNCHANGED <<parseVars, storeVars, client, streamVars, mainVars>>

FetchRaised ==
    /\ mainPc = "fetching"
    /\ RecentRaise
    /\ UNCHANGED <<parseVars, storeVars, client, streamVars, mainVars>>

\* get_recent_releases is back: an exception or an empty list is reported
\* and the loop continues; otherwise the summary stream is started
AfterFetch ==
    /\ mainPc = "fetching"
    /\ recentPc \in {"returned", "raised"}
    /\ FetchReset
    /\ recentPc' = "idle"
    /\ now' = None
    /\ IF recentPc = "raised" \/ filtered = <<>>
       THEN /\ cycle' = [cycle EXCEPT ![idx] =
                             IF recentPc = "raised" THEN "fetch_error" ELSE "no_releases"]
            /\ idx' = idx + 1
            /\ mainPc' = "loop"
            /\ n_days' = 0
            /\ filtered' = <<>>
            /\ UNCHANGED <<streamVars, netLog>>
       ELSE /\ mainPc' = "summarizing"
            /\ StreamStart
            /\ netLog' = Append(netLog, NetEntry("llm", client[1].provider))
            /\ UNCHANGED <<cycle, idx, n_days, filtered>>
    /\ UNCHANGED <<parseVars, storeVars, client, gpt_provider, created, repos>>

MainEvents ==
    { Event("created", <<>>, ""), Event("end", <<>>, ""),
      Event("chunk", <<Some("Hi")>>, ""), Event("error", <<>>, "Connection error.") }

LlmAnswer ==
    /\ mainPc = "summarizing"
    /\ \E ev \in MainEvents : BackendEvent(ev)
    /\ UNCHANGED Unrelated

RenderFragment ==
    /\ mainPc = "summarizing"
    /\ ConsumerResume
    /\ UNCHANGED Unrelated

\* the stream is exhausted: the cycle of this repository is complete.  An
\* exception out of the stream would leave main.
AfterStream ==
    /\ mainPc = "summarizing"
    /\ streamPc \in {"done", "raised"}
    /\ IF streamPc = "done"
       THEN /\ cycle' = [cycle EXCEPT ![idx] = "done"]
            /\ idx' = idx + 1
            /\ mainPc' = "loop"
       ELSE mainPc' = "crashed" /\ UNCHANGED <<cycle, idx>>
    /\ StreamReset
    /\ n_days' = 0
    /\ filtered' = <<>>
    /\ UNCHANGED <<parseVars, storeVars, fetchVars, recentPc, now, client, otherSteps,
                   gpt_provider, created, repos, netLog>>

\* the persisted list is an external document: main parses every entry again
MainLists ==
    { <<>>, <<"a/b">>, <<"a/b", "c/d">>, <<"nope", "a/b">>, <<"a/b", "nope">> }

\* the select box offers "OpenAI" and "ZhipuAI"; the other names are what
\* the try around create_gpt_client is there for
MainProviders == {"OpenAI", "ZhipuAI", "ZHIPUAI", "unsupported", "OpenAI ", ""}

InitMain ==
    /\ ParseIdle /\ FetchIdle /\ RecentIdle /\ StreamIdle
    /\ client = None
    /\ call = None
    /\ \E listed \in MainLists :
          data = IF listed = <<>> THEN EmptyDoc ELSE Put(EmptyDoc, "s1", listed)
    /\ mainPc = "idle"
    /\ gpt_provider \in MainProviders
    /\ created = None /\ repos = <<>> /\ idx = 0 /\ cycle = <<>> /\ netLog = <<>>

NextMain ==
    \/ Summarize
    \/ NextRepo
    \/ GitHubRequest
    \/ GitHubAnswer
    \/ FilterRecent
    \/ FetchRaised
    \/ AfterFetch
    \/ LlmAnswer
    \/ RenderFragment
    \/ AfterStream

SpecMain == InitMain /\ [][NextMain]_vars

\* every step is the program's own or an answer of a server it waits for
FairSpecMain == SpecMain /\ WF_vars(NextMain)

LetterPairs == {<<Char(UpperCase, i), Char(LowerCase, i)>> : i \in 1..Len(UpperCase)}

\* a and b are the same string up to the case of their letters
SameIgnoringCase(a, b) ==
    /\ Len(a) = Len(b)
    /\ \A i \in 1..Len(a) :
          \/ Char(a, i) = Char(b, i)
          \/ <<Char(a, i), Char(b, i)>> \in LetterPairs
          \/ <<Char(b, i), Char(a, i)>> \in LetterPairs

Supported(name) == SameIgnoringCase(name, "openai") \/ SameIgnoringCase(name, "zhipuai")

\* C7: create_gpt_client fails with "Unsupported GPT provider" exactly for
\* the names that are not "openai" or "zhipuai" in some letter case; for
\* those two it returns a client whose provider is the requested backend;
\* an unsupported provider ends the run before any GitHub or LLM request.
C7_FactoryAndUnsupportedProvider ==
    created # None =>
        LET made == created[1]
        IN  /\ made.ok <=> Supported(gpt_provider)
            /\ made.ok =>
                  /\ SameIgnoringCase(made.client.provider, gpt_provider)
                  /\ client = Some(made.client)
            /\ ~made.ok =>
                  /\ startswith(made.error, "Unsupported GPT provider")
                  /\ client = None
                  /\ mainPc = "done"
                  /\ netLog = <<>>
                  /\ fetchPc = "idle" /\ streamPc = "idle"

C7_Witness ==
    /\ created # None
    /\ ~created[1].ok
    /\ gpt_provider = "unsupported"
    /\ Len(repos) = 2
    /\ mainPc = "done"

RepoParses(j) == parse_repo_input(repos[j]).ok

\* the per-repository loop visits the list in order, one cycle at a time
SequentialCycles ==
    /\ \A j \in 1..Len(cycle) :
          /\ j < idx => cycle[j] \in Finished
          /\ j > idx => cycle[j] = "pending"
          /\ cycle[j] = "parse_error" => ~RepoParses(j)
          /\ cycle[j] \in {"active", "done", "fetch_error", "no_releases"} => RepoParses(j)
    /\ \A n \in 1..Len(netLog) :
          /\ netLog[n].finished = netLog[n].repo - 1
          /\ n > 1 => netLog[n - 1].repo <= netLog[n].repo
    /\ mainPc # "crashed"

AllVisited == \A j \in 1..Len(cycle) : cycle[j] \in Finished

====
